---- MODULE Spec2Model ----
(***************************************************************************)
(* chanarch.py: the resumable Downloader (download, close, set_server) and *)
(* the ChanThread refresh protocol (update_info, download_files,           *)
(* scrape_links).                                                          *)
(*                                                                         *)
(* File contents are sequences of small integers.  The media server and    *)
(* the metadata server are the environment: each response and each         *)
(* transport exception is a nondeterministic choice.                       *)
(***************************************************************************)
EXTENDS Integers, Sequences, FiniteSets, TLC

\* ---------------------------------------------------------------- bounds
\* longest remote file
MaxSize == 2
\* longest local file present before the first call
MaxLocal == 2
\* GET requests one download call may issue (the while loop has no bound)
MaxGets == 2
\* bytes per resp.read(block_sz); the program reads 16384 at a time
BlockSz == 1
\* longest body of an error response
MaxErrLen == 1

\* ------------------------------------------------------------- data
\* byte values of file contents
Byte == {1, 2}
RECURSIVE SeqsUpTo(_, _)
SeqsUpTo(S, n) ==
    IF n = 0 THEN {<<>>}
    ELSE LET shorter == SeqsUpTo(S, n - 1)
         IN  shorter \cup {Append(s, x) : s \in {t \in shorter : Len(t) = n - 1}, x \in S}

Min(a, b) == IF a < b THEN a ELSE b

Take(s, n) == SubSeq(s, 1, Min(n, Len(s)))
Drop(s, n) == SubSeq(s, Min(n, Len(s)) + 1, Len(s))

IsPrefix(p, s) == Len(p) <= Len(s) /\ SubSeq(s, 1, Len(p)) = p

\* bodies of error responses: made of a byte that is no content byte
ErrBodies == SeqsUpTo({0}, MaxErrLen)

\* exceptions a request, getresponse or read can raise.  A read timeout on a
\* TLS socket is ssl.SSLError('The read operation timed out'); on a plain
\* socket it is socket.timeout.
SSLExceptions == {"SSLTimeout", "SSLOther"}
Exceptions == SSLExceptions \cup {"SocketTimeout", "Other"}
Timeouts == {"SSLTimeout", "SocketTimeout"}

VARIABLES
    \* Downloader
    conn,        \* self.conn: "None", "unconnected" or "connected"
    sockets,     \* sockets this Downloader has opened and not closed
    usehttps,    \* self.usehttps
    \* media server and local disk
    remote,      \* content of servpath on the server
    file,        \* content of filepath on disk
    \* one download() call in progress
    pc,          \* "idle", "head", "loop", "get", "stream"
    outfile,     \* the file object of the current or last call: "none",
                 \* "open" or "closed"
    filesize,    \* local filesize (-1 before the HEAD response)
    status,      \* status of the response being read: "none","ok","full","416","err"
    body,        \* unread part of the response body
    result,      \* how the last call ended: "none", "ok", "raised"
    \* observation (history) variables
    lastExc,     \* last exception raised inside this call, "none" if none
    excAt,       \* pc at which lastExc was raised
    file0,       \* file when the current call started
    prev,        \* [file, ok, got]: file after the previous call, whether
                 \* it returned normally with every response served, and
                 \* whether it sent a GET request
    nreq,        \* requests (HEAD and GET) sent in this call
    ngets,       \* GET requests sent in this call
    firstOff,    \* Range start of the first GET of this call (-1: none)
    lastOff,     \* Range start of the last GET of this call (-1: none)
    served       \* every response of this call so far was a success
                 \* carrying what was asked for

VARIABLES
    \* ChanThread
    thread_is_dead,  \* self.thread_is_dead: "None" or "True"
    threadinfo,      \* self.threadinfo: [kind, posts], kind "None", "ErrorDoc"
                     \* (JSON without 'posts') or "thread"
    linkfile,        \* the link file: [exists, text]
    \* observation variables: the last ChanThread operation and what it did
    op,              \* "none", "update_info", "download_files", "scrape_links"
    opStatus,        \* status update_info saw: "none", "404", "200", "err"
    opRaised,        \* the operation left by an exception
    tasks,           \* Downloader.download calls it made, in order
    downMade,        \* it constructed a Downloader
    linkIO           \* it touched the link file

dvars == <<conn, sockets, usehttps, remote, file, pc, outfile, filesize, status, body,
           result, lastExc, excAt, file0, prev, nreq, ngets, firstOff,
           lastOff, served>>

tvars == <<thread_is_dead, threadinfo, linkfile, op, opStatus, opRaised,
           tasks, downMade, linkIO>>

\* the run of the program (__main__)
VARIABLES
    urls,            \* the thread URLs read, those of the files first
    linkarg,         \* args.linkfile is set
    mpc,             \* where the run is
    threads,         \* the thread dictionary, in the order it is iterated in
    tnum,            \* the position of the thread at work in threads
    log,             \* the calls made on the threads so far
    downloaders      \* Downloader objects constructed so far

mvars == <<urls, linkarg, mpc, threads, tnum, log, downloaders>>

vars == <<dvars, tvars, mvars>>

\* ------------------------------------------------------- pure pieces

\* mutant: every GET asks for the file from its first byte
RangeStart_Zero(f) == 0

\* Range header value of the GET: 'bytes=%d-' % outfile.tell()
RangeStart(f) == Len(f)

\* mutant: a file of exactly the reported size is truncated and fetched again
HeadBranch_TruncEq(pos, size) ==
    IF pos >= size THEN "truncate" ELSE "download"

\* mutant: a file larger than the reported size is kept as it is
HeadBranch_NoTruncate(pos, size) ==
    IF pos = size THEN "done" ELSE "download"

\* mutant: the loop stops one byte short
MoreToDownload_Short(pos, size) == pos + 1 < size

\* the three-way branch after the HEAD response
HeadBranch(pos, size) ==
    IF pos = size THEN "done"
    ELSE IF pos > size THEN "truncate"
    ELSE "download"

\* mutant: the loop goes on with the file as long as the reported size
MoreToDownload_Incl(pos, size) == pos <= size

\* while outfile.tell() < filesize
MoreToDownload(pos, size) == pos < size

\* mutant: the handler goes on after every SSL error
Caught_AnySSL(exc) == exc \in SSLExceptions

\* except ssl.SSLError as err: if err.args[0] == 'The read operation timed out'
Caught(exc) == exc \in SSLExceptions /\ exc = "SSLTimeout"

\* sockets left once close() has run: if self.conn: self.conn.close()
SocketsAfterClose(c, n) == IF c = "connected" THEN n - 1 ELSE n

\* mutant: set_server forgets the connection it holds without closing it
SocketsAfterReset_NoClose(c, n) == n

\* sockets left once set_server has run: it begins with self.close()
SocketsAfterReset(c, n) == SocketsAfterClose(c, n)

\* sockets once a request has been sent: an HTTPConnection without a socket
\* connects when its first request is sent
SocketsAfterRequest(c, n) == IF c = "connected" THEN n ELSE n + 1

\* which exceptions the transport in use can raise
CanRaise(https) == IF https THEN Exceptions ELSE Exceptions \ SSLExceptions

\* ------------------------------------------------------------- Init

DInit ==
    /\ conn = "unconnected"
    /\ sockets = 0
    /\ usehttps \in BOOLEAN
    /\ remote \in SeqsUpTo(Byte, MaxSize)
    /\ file \in SeqsUpTo(Byte, MaxLocal)
    /\ pc = "idle"
    /\ outfile = "none"
    /\ filesize = -1
    /\ status = "none"
    /\ body = <<>>
    /\ result = "none"
    /\ lastExc = "none"
    /\ excAt = "none"
    /\ file0 = file
    /\ prev = [file |-> file, ok |-> FALSE, got |-> FALSE]
    /\ nreq = 0
    /\ ngets = 0
    /\ firstOff = -1
    /\ lastOff = -1
    /\ served = TRUE

\* the Downloader at rest, for the runs that exercise ChanThread only
DQuiet ==
    /\ DInit
    /\ usehttps = FALSE
    /\ remote = <<>>
    /\ file = <<>>

\* self.threadinfo = None
NoInfo == [kind |-> "None", posts |-> <<>>]

\* ChanThread.__init__
TInit ==
    /\ thread_is_dead = "None"
    /\ threadinfo = NoInfo
    /\ op = "none"
    /\ opStatus = "none"
    /\ opRaised = FALSE
    /\ tasks = <<>>
    /\ downMade = FALSE
    /\ linkIO = FALSE

\* no run of the program
MQuiet ==
    /\ urls = <<>>
    /\ linkarg = FALSE
    /\ mpc = "none"
    /\ threads = <<>>
    /\ tnum = 0
    /\ log = <<>>
    /\ downloaders = 0

Init ==
    /\ DInit
    /\ TInit
    /\ MQuiet
    /\ linkfile = [exists |-> FALSE, text |-> <<>>]

\* ---------------------------------------------------------- Downloader

\* Downloader.close
close ==
    /\ pc = "idle"
    /\ conn' = "None"
    /\ sockets' = SocketsAfterClose(conn, sockets)
    /\ UNCHANGED <<tvars, mvars>>
    /\ UNCHANGED <<usehttps, remote, file, pc, outfile, filesize, status, body,
                   result, lastExc, excAt, file0, prev, nreq, ngets,
                   firstOff, lastOff, served>>

\* Downloader.set_server: close(), then a fresh connection object
set_server ==
    /\ pc = "idle"
    /\ \E https \in BOOLEAN : usehttps' = https
    /\ conn' = "unconnected"
    /\ sockets' = SocketsAfterReset(conn, sockets)
    /\ UNCHANGED <<tvars, mvars>>
    /\ UNCHANGED <<remote, file, pc, outfile, filesize, status, body,
                   result, lastExc, excAt, file0, prev, nreq, ngets,
                   firstOff, lastOff, served>>

\* what every call resets when it starts
StartCall ==
    /\ file0' = file
    /\ prev' = [file |-> file, ok |-> (result = "ok" /\ served), got |-> (ngets >= 1)]
    /\ outfile' = "open"             \* outfile = open(filepath, 'ab')
    /\ filesize' = -1
    /\ status' = "none"
    /\ body' = <<>>
    /\ lastExc' = "none"
    /\ excAt' = "none"
    /\ ngets' = 0
    /\ firstOff' = -1
    /\ lastOff' = -1
    /\ served' = TRUE

\* download, up to the HEAD request being sent
DownloadCall ==
    /\ pc = "idle"
    /\ conn # "None"
    /\ StartCall
    /\ conn' = "connected"
    /\ sockets' = SocketsAfterRequest(conn, sockets)
    /\ nreq' = 1
    /\ pc' = "head"
    /\ result' = "none"
    /\ UNCHANGED <<tvars, mvars>>
    /\ UNCHANGED <<usehttps, remote, file>>

\* download after close(): self.conn is None, self.conn.request raises
\* AttributeError after the file was opened
DownloadNoConn ==
    /\ pc = "idle"
    /\ conn = "None"
    /\ StartCall
    /\ nreq' = 0
    /\ result' = "raised"
    /\ UNCHANGED <<tvars, mvars>>
    /\ UNCHANGED sockets
    /\ UNCHANGED <<conn, usehttps, remote, file, pc>>

\* leaving download by an exception: nothing closes outfile
Raise(exc) ==
    /\ lastExc' = exc
    /\ excAt' = pc
    /\ pc' = "idle"
    /\ result' = "raised"

\* the HEAD request or its response fails: outside the try, so it propagates
HeadFail ==
    /\ pc = "head"
    /\ \E exc \in CanRaise(usehttps) : Raise(exc)
    /\ UNCHANGED <<tvars, mvars>>
    /\ UNCHANGED sockets
    /\ UNCHANGED <<conn, usehttps, remote, file, outfile, filesize, status,
                   body, file0, prev, nreq, ngets, firstOff, lastOff,
                   served>>

\* the HEAD response has no Content-Length: int(None) raises TypeError
HeadNoLength ==
    /\ pc = "head"
    /\ Raise("Other")
    /\ served' = FALSE
    /\ UNCHANGED <<tvars, mvars>>
    /\ UNCHANGED sockets
    /\ UNCHANGED <<conn, usehttps, remote, file, outfile, filesize, status,
                   body, file0, prev, nreq, ngets, firstOff, lastOff>>

\* the HEAD response arrives with Content-Length n; the status is not looked at
HeadReply(n, good) ==
    /\ pc = "head"
    /\ filesize' = n
    /\ served' = (served /\ good)
    /\ LET branch == HeadBranch(Len(file), n)
       IN  /\ file' = IF branch = "truncate" THEN <<>> ELSE file
           /\ pc' = IF branch = "done" THEN "idle" ELSE "loop"
           /\ result' = IF branch = "done" THEN "ok" ELSE result
    /\ UNCHANGED <<tvars, mvars>>
    /\ UNCHANGED sockets
    /\ UNCHANGED <<conn, usehttps, remote, outfile, status, body, lastExc,
                   excAt, file0, prev, nreq, ngets, firstOff, lastOff>>

\* the server answers the HEAD with the size of the file
HeadResponse == HeadReply(Len(remote), TRUE)

\* the server answers the HEAD with an error status: Content-Length is the
\* length of the error page
HeadError == \E e \in ErrBodies : HeadReply(Len(e), FALSE)

\* while outfile.tell() < filesize: send the GET with the Range header
SendGet ==
    /\ pc = "loop"
    /\ MoreToDownload(Len(file), filesize)
    /\ ngets < MaxGets
    /\ ngets' = ngets + 1
    /\ nreq' = nreq + 1
    /\ lastOff' = RangeStart(file)
    /\ firstOff' = IF ngets = 0 THEN RangeStart(file) ELSE firstOff
    /\ pc' = "get"
    /\ status' = "none"
    /\ body' = <<>>
    /\ UNCHANGED <<tvars, mvars>>
    /\ UNCHANGED sockets
    /\ UNCHANGED <<conn, usehttps, remote, file, outfile, filesize, result,
                   lastExc, excAt, file0, prev, served>>

\* the loop condition is false: outfile.close() and return
Finish ==
    /\ pc = "loop"
    /\ ~MoreToDownload(Len(file), filesize)
    /\ outfile' = "closed"
    /\ pc' = "idle"
    /\ result' = "ok"
    /\ UNCHANGED <<tvars, mvars>>
    /\ UNCHANGED sockets
    /\ UNCHANGED <<conn, usehttps, remote, file, filesize, status, body,
                   lastExc, excAt, file0, prev, nreq, ngets, firstOff,
                   lastOff, served>>

\* an exception inside the try: the handler continues the while loop on an
\* SSL read timeout and re-raises everything else
Handle(exc) ==
    IF Caught(exc)
    THEN /\ lastExc' = exc
         /\ excAt' = pc
         /\ pc' = "loop"
         /\ result' = result
    ELSE Raise(exc)

\* request('GET') or getresponse() raises
GetFail ==
    /\ pc = "get"
    /\ \E exc \in CanRaise(usehttps) : Handle(exc)
    /\ UNCHANGED <<tvars, mvars>>
    /\ UNCHANGED sockets
    /\ UNCHANGED <<conn, usehttps, remote, file, outfile, filesize, status,
                   body, file0, prev, nreq, ngets, firstOff, lastOff,
                   served>>

\* the GET response arrives; its status is not looked at
GetReply(st, b) ==
    /\ pc = "get"
    /\ status' = st
    /\ body' = b
    /\ served' = (served /\ st = "ok")
    /\ pc' = "stream"
    /\ UNCHANGED <<tvars, mvars>>
    /\ UNCHANGED sockets
    /\ UNCHANGED <<conn, usehttps, remote, file, outfile, filesize, result,
                   lastExc, excAt, file0, prev, nreq, ngets, firstOff,
                   lastOff>>

\* 206: the bytes of the file from the Range start on
GetPartial ==
    /\ lastOff < Len(remote)
    /\ GetReply("ok", Drop(remote, lastOff))

\* 200: the server ignores the Range header and sends the whole file
GetFull == GetReply("full", remote)

\* 416 Requested Range Not Satisfiable, with an error page
GetRangeError == \E e \in ErrBodies : GetReply("416", e)

\* any other error status (403, 404, 500, ...), with an error page
GetError == \E e \in ErrBodies : GetReply("err", e)

\* buff = resp.read(block_sz); break on an empty buff, else outfile.write(buff)
ReadChunk ==
    /\ pc = "stream"
    /\ LET buff == Take(body, BlockSz)
       IN  IF buff = <<>>
           THEN /\ pc' = "loop"
                /\ UNCHANGED <<file, body>>
           ELSE /\ file' = file \o buff
                /\ body' = Drop(body, BlockSz)
                /\ pc' = "stream"
    /\ UNCHANGED <<tvars, mvars>>
    /\ UNCHANGED sockets
    /\ UNCHANGED <<conn, usehttps, remote, outfile, filesize, status, result,
                   lastExc, excAt, file0, prev, nreq, ngets, firstOff,
                   lastOff, served>>

\* resp.read(block_sz) raises
ReadFail ==
    /\ pc = "stream"
    /\ \E exc \in CanRaise(usehttps) : Handle(exc)
    /\ UNCHANGED <<tvars, mvars>>
    /\ UNCHANGED sockets
    /\ UNCHANGED <<conn, usehttps, remote, file, outfile, filesize, status,
                   body, file0, prev, nreq, ngets, firstOff, lastOff,
                   served>>

DNext ==
    \/ close
    \/ set_server
    \/ DownloadCall
    \/ DownloadNoConn
    \/ HeadFail
    \/ HeadNoLength
    \/ HeadResponse
    \/ HeadError
    \/ SendGet
    \/ Finish
    \/ GetFail
    \/ GetPartial
    \/ GetFull
    \/ GetRangeError
    \/ GetError
    \/ ReadChunk
    \/ ReadFail

Next == DNext

Spec == Init /\ [][Next]_vars

\* ---------------------------------------------------------- ChanThread

\* posts one thread JSON may hold
MaxPosts == 2

\* Text is a sequence of characters.  "h" stands for the scheme and its
\* separator ("http://"), "a" and "b" for two characters a URL may hold,
\* " " for a character no URL holds, "<wbr>" for a word break tag and
\* "\n" for the end of a line.
UrlChars == {"h", "a", "b"}

\* the order of the characters in sorted()
CharRank(c) ==
    CASE c = "\n" -> 0
      [] c = " " -> 1
      [] c = "<wbr>" -> 2
      [] c = "a" -> 3
      [] c = "b" -> 4
      [] c = "h" -> 5
      [] OTHER -> 6

RECURSIVE LexLess(_, _)
\* x < y for two strings
LexLess(x, y) ==
    IF y = <<>> THEN FALSE
    ELSE IF x = <<>> THEN TRUE
    ELSE IF Head(x) = Head(y) THEN LexLess(Tail(x), Tail(y))
    ELSE CharRank(Head(x)) < CharRank(Head(y))

Range(q) == {q[i] : i \in 1..Len(q)}

\* a list kept as it is, every repetition included
Dedup_Keep(q) == q

RECURSIVE Dedup(_)
\* list(set(links)): every string of links once
Dedup(q) ==
    IF q = <<>> THEN <<>>
    ELSE LET rest == Dedup(SubSeq(q, 1, Len(q) - 1))
         IN  IF q[Len(q)] \in Range(rest) THEN rest ELSE Append(rest, q[Len(q)])

\* x put at its place in the sorted list q
Insert(x, q) ==
    LET before == SelectSeq(q, LAMBDA y : ~LexLess(x, y))
        after == SelectSeq(q, LAMBDA y : LexLess(x, y))
    IN  before \o <<x>> \o after

RECURSIVE SortedSeq(_)
\* links.sort()
SortedSeq(q) ==
    IF q = <<>> THEN <<>>
    ELSE Insert(q[Len(q)], SortedSeq(SubSeq(q, 1, Len(q) - 1)))

\* re.sub('<wbr(?:[ ]?/)?>', '', com)
StripWbr(text) == SelectSeq(text, LAMBDA c : c # "<wbr>")

RECURSIVE UrlRun(_)
\* the longest prefix of text made of characters a URL may hold
UrlRun(text) ==
    IF text = <<>> \/ Head(text) \notin UrlChars THEN <<>>
    ELSE <<Head(text)>> \o UrlRun(Tail(text))

RECURSIVE FindAll(_)
\* re.findall(urlregex, com): the scheme followed by one or more URL
\* characters, leftmost and longest, without overlap
FindAll(text) ==
    IF text = <<>> THEN <<>>
    ELSE IF Head(text) = "h" /\ UrlRun(Tail(text)) # <<>>
    THEN LET url == <<"h">> \o UrlRun(Tail(text))
         IN  <<url>> \o FindAll(SubSeq(text, Len(url) + 1, Len(text)))
    ELSE FindAll(Tail(text))

RECURSIVE WriteLinks(_)
\* linkfile.write(''.join([link, '\n'])) for every link
WriteLinks(links) ==
    IF links = <<>> THEN <<>>
    ELSE Head(links) \o <<"\n">> \o WriteLinks(Tail(links))

RECURSIVE RStrip(_)
\* line.rstrip()
RStrip(line) ==
    IF line # <<>> /\ line[Len(line)] \in {" ", "\n"}
    THEN RStrip(SubSeq(line, 1, Len(line) - 1))
    ELSE line

RECURSIVE FirstLine(_)
\* the first line of a text, with its end of line
FirstLine(text) ==
    IF text = <<>> THEN <<>>
    ELSE IF Head(text) = "\n" THEN <<"\n">>
    ELSE <<Head(text)>> \o FirstLine(Tail(text))

RECURSIVE ReadLinks(_)
\* links.append(line.rstrip()) for every line of the file
ReadLinks(text) ==
    IF text = <<>> THEN <<>>
    ELSE LET line == FirstLine(text)
         IN  <<RStrip(line)>> \o ReadLinks(SubSeq(text, Len(line) + 1, Len(text)))

\* URLs a link file left by an earlier run may hold
Urls == {<<"h", "a">>, <<"h", "b">>, <<"h", "a", "b">>}

\* what post.get(key) returns: None without the key, else the value
None == <<>>
Some(x) == <<x>>
Value(o) == o[1]

\* a post of the thread JSON.  tim and ext are what post.get returns;
\* filedeleted is 0 for a post without the key; com is the text of the
\* comment (<<>> for no comment).
NewPost(tim, ext, filedeleted, com) ==
    [tim |-> tim, ext |-> ext, filedeleted |-> filedeleted, com |-> com]

jpg == <<".", "j", "p", "g">>

\* the posts the metadata server may send: a text post, a text post with
\* links, two posts with a file, a post whose file was deleted, and a post
\* with a file and no timestamp id
Post ==
    {NewPost(None, None, 0, <<>>),
     NewPost(None, None, 0, <<"h", "b", " ", "h", "a", "<wbr>", "b">>),
     NewPost(Some(1), Some(jpg), 0, <<>>),
     NewPost(Some(12), Some(jpg), 0, <<"h", "a", "b">>),
     NewPost(Some(1), Some(jpg), 1, <<>>),
     NewPost(None, Some(jpg), 0, <<>>)}

PostLists == SeqsUpTo(Post, MaxPosts)

\* link files a previous run can have left: none, or one it wrote
LinkFiles ==
    {[exists |-> FALSE, text |-> <<>>]}
    \cup {[exists |-> TRUE, text |-> WriteLinks(SortedSeq(Dedup(q)))] :
             q \in SeqsUpTo(Urls, 2)}

board == <<"g">>
downdir == <<"d", "l">>

\* mutant: the dead check is missing
SkipDead_Never(dead) == FALSE

\* if self.thread_is_dead
SkipDead(dead) == dead = "True"

\* mutant: a refresh that is not a 404 clears the flag
DeadAfter_Reset(st, dead) == IF st = "404" THEN "True" ELSE "None"

\* thread_is_dead after update_info saw status st
DeadAfter(st, dead) == IF st = "404" THEN "True" ELSE dead

\* mutant: a post whose file was deleted is downloaded as well
HasFile_Deleted(post) == post.ext # None

\* if (ext is not None) and (filedeleted != 1)
HasFile(post) == post.ext # None /\ post.filedeleted # 1

DigitChar(d) == <<"0", "1", "2", "3", "4", "5", "6", "7", "8", "9">>[d + 1]

RECURSIVE Decimal(_)
\* str(n) of a natural number
Decimal(n) ==
    IF n < 10 THEN <<DigitChar(n)>>
    ELSE Decimal(n \div 10) \o <<DigitChar(n % 10)>>

\* str(tim)
Str(tim) == IF tim = None THEN <<"N", "o", "n", "e">> ELSE Decimal(Value(tim))

\* os.path.join(dir, name)
Join(dir, name) ==
    IF name # <<>> /\ Head(name) = "/" THEN name
    ELSE IF dir = <<>> \/ dir[Len(dir)] = "/" THEN dir \o name
    ELSE dir \o <<"/">> \o name

\* filename = ''.join([str(tim), ext])
Filename(post) == Str(post.tim) \o Value(post.ext)

\* the download a post's file is fetched by
Task(post) ==
    [url |-> <<"/">> \o board \o <<"/">> \o Filename(post),
     filepath |-> Join(downdir, Filename(post))]

RECURSIVE DerivedTasks(_)
\* the down.download(url, filepath) calls of the loop over the posts
DerivedTasks(posts) ==
    IF posts = <<>> THEN <<>>
    ELSE (IF HasFile(Head(posts)) THEN <<Task(Head(posts))>> ELSE <<>>)
         \o DerivedTasks(Tail(posts))

\* the links of one post: none without a comment
PostLinks(post) ==
    IF post.com = <<>> THEN <<>> ELSE FindAll(StripWbr(post.com))

RECURSIVE ScrapedLinks(_)
\* links.extend(postlinks) over the posts
ScrapedLinks(posts) ==
    IF posts = <<>> THEN <<>>
    ELSE PostLinks(Head(posts)) \o ScrapedLinks(Tail(posts))

HasPosts(info) == info.kind = "thread"

\* the runs that exercise ChanThread start with any link file on disk
ThreadInit ==
    /\ DQuiet
    /\ TInit
    /\ MQuiet
    /\ linkfile \in LinkFiles

\* update_info: the request or the response fails
update_info_fail ==
    /\ op' = "update_info"
    /\ opStatus' = "none"
    /\ opRaised' = TRUE
    /\ tasks' = <<>>
    /\ downMade' = FALSE
    /\ linkIO' = FALSE
    /\ UNCHANGED <<thread_is_dead, threadinfo, linkfile>>
    /\ UNCHANGED dvars

\* update_info: the server answers 404
update_info_404 ==
    /\ op' = "update_info"
    /\ opStatus' = "404"
    /\ opRaised' = FALSE
    /\ thread_is_dead' = DeadAfter("404", thread_is_dead)
    /\ tasks' = <<>>
    /\ downMade' = FALSE
    /\ linkIO' = FALSE
    /\ UNCHANGED <<threadinfo, linkfile>>
    /\ UNCHANGED dvars

\* update_info: the server answers 200 with the thread JSON
update_info_ok ==
    /\ op' = "update_info"
    /\ opStatus' = "200"
    /\ opRaised' = FALSE
    /\ thread_is_dead' = DeadAfter("200", thread_is_dead)
    /\ \E posts \in PostLists : threadinfo' = [kind |-> "thread", posts |-> posts]
    /\ tasks' = <<>>
    /\ downMade' = FALSE
    /\ linkIO' = FALSE
    /\ UNCHANGED linkfile
    /\ UNCHANGED dvars

\* update_info: the server answers another error status; the status is not
\* looked at and the body goes to json.loads, which raises ValueError on a
\* body that is no JSON and returns a document without 'posts' otherwise
update_info_error ==
    /\ op' = "update_info"
    /\ opStatus' = "err"
    /\ thread_is_dead' = DeadAfter("err", thread_is_dead)
    /\ \E isjson \in BOOLEAN :
         /\ opRaised' = ~isjson
         /\ threadinfo' = IF isjson THEN [kind |-> "ErrorDoc", posts |-> <<>>]
                                    ELSE threadinfo
    /\ tasks' = <<>>
    /\ downMade' = FALSE
    /\ linkIO' = FALSE
    /\ UNCHANGED linkfile
    /\ UNCHANGED dvars

\* download_files
download_files ==
    /\ op' = "download_files"
    /\ opStatus' = "none"
    /\ linkIO' = FALSE
    /\ IF SkipDead(thread_is_dead)
       THEN /\ tasks' = <<>>
            /\ downMade' = FALSE
            /\ opRaised' = FALSE
       ELSE /\ downMade' = TRUE
            /\ IF HasPosts(threadinfo)
               THEN LET all == DerivedTasks(threadinfo.posts)
                    IN  \* a download that raises ends the loop
                        \E n \in 0..Len(all) :
                          /\ (n = 0 => all = <<>>)
                          /\ tasks' = SubSeq(all, 1, n)
                          /\ opRaised' \in (IF n < Len(all) THEN {TRUE} ELSE BOOLEAN)
                          /\ (all = <<>> => opRaised' = FALSE)
               ELSE \* self.threadinfo['posts'] raises TypeError or KeyError
                    /\ tasks' = <<>>
                    /\ opRaised' = TRUE
    /\ UNCHANGED <<thread_is_dead, threadinfo, linkfile>>
    /\ UNCHANGED dvars

\* scrape_links
scrape_links ==
    /\ op' = "scrape_links"
    /\ opStatus' = "none"
    /\ tasks' = <<>>
    /\ downMade' = FALSE
    /\ IF SkipDead(thread_is_dead)
       THEN /\ linkIO' = FALSE
            /\ opRaised' = FALSE
            /\ UNCHANGED linkfile
       ELSE /\ linkIO' = TRUE         \* os.path.exists, open(linkfile, 'r')
            /\ IF HasPosts(threadinfo)
               THEN LET old == IF linkfile.exists THEN ReadLinks(linkfile.text)
                                                   ELSE <<>>
                        links == old \o ScrapedLinks(threadinfo.posts)
                    IN  /\ linkfile' = [exists |-> TRUE,
                                        text |-> WriteLinks(SortedSeq(Dedup(links)))]
                        /\ opRaised' = FALSE
               ELSE \* self.threadinfo['posts'] raises before the file is written
                    /\ opRaised' = TRUE
                    /\ UNCHANGED linkfile
    /\ UNCHANGED <<thread_is_dead, threadinfo>>
    /\ UNCHANGED dvars

TNext ==
    \/ update_info_fail /\ UNCHANGED mvars
    \/ update_info_404 /\ UNCHANGED mvars
    \/ update_info_ok /\ UNCHANGED mvars
    \/ update_info_error /\ UNCHANGED mvars
    \/ download_files /\ UNCHANGED mvars
    \/ scrape_links /\ UNCHANGED mvars

\* a caller that calls the operations of one ChanThread in any order
ThreadSpec == ThreadInit /\ [][TNext]_vars

\* -------------------------------------------------------------- __main__

\* thread URLs one run may be given
MaxUrls == 3

\* a thread URL as parse_url sees it: one the regular expression does not
\* match, or one that names the scheme and the thread
InvalidUrl == [valid |-> FALSE, usehttps |-> FALSE, threadid |-> 0]
ThreadUrl(https, id) == [valid |-> TRUE, usehttps |-> https, threadid |-> id]

Url ==
    {InvalidUrl, ThreadUrl(FALSE, 1), ThreadUrl(TRUE, 1), ThreadUrl(FALSE, 2)}

\* mutant: every URL is taken for a thread URL
BadUrl_Never(url) == FALSE

\* if m is None: raise InvalidURLError
BadUrl(url) == ~url.valid

\* ChanThread(url, ...): the thread object of a valid URL
NewThread(url) == [usehttps |-> url.usehttps, threadid |-> url.threadid]

\* get_threadid
get_threadid(t) == <<board, t.threadid>>

\* mutant: a thread seen again takes the place of the one kept
AddThread_KeepLast(dict, t) ==
    SelectSeq(dict, LAMBDA u : get_threadid(u) # get_threadid(t)) \o <<t>>

\* if not tid in threads: threads[tid] = t
AddThread(dict, t) ==
    IF \E i \in 1..Len(dict) : get_threadid(dict[i]) = get_threadid(t)
    THEN dict
    ELSE Append(dict, t)

RECURSIVE BuildThreads(_)
\* the thread dictionary after the URLs were read, in insertion order
BuildThreads(us) ==
    IF us = <<>> THEN <<>>
    ELSE AddThread(BuildThreads(SubSeq(us, 1, Len(us) - 1)),
                   NewThread(us[Len(us)]))

\* the orders a dict may be iterated in: any order of its keys on the
\* Python versions before 3.7 that the program runs on
IterOrders(dict) ==
    {q \in [1..Len(dict) -> Range(dict)] : Range(q) = Range(dict)}

\* mutant: one Downloader for each file
DownloadersMade_PerFile(ntasks) == ntasks

\* down = Downloader(imgserver, ...) before the loop over the posts
DownloadersMade(ntasks) == 1

\* one call on the thread at work
Call(name, acted) ==
    [threadid |-> threads[tnum].threadid, usehttps |-> threads[tnum].usehttps,
     op |-> name, acted |-> acted]

\* a run starts with the URLs of its files and arguments
MainInit ==
    /\ DQuiet
    /\ TInit
    /\ linkfile = [exists |-> FALSE, text |-> <<>>]
    /\ urls \in SeqsUpTo(Url, MaxUrls)
    /\ linkarg \in BOOLEAN
    /\ mpc = "build"
    /\ threads = <<>>
    /\ tnum = 0
    /\ log = <<>>
    /\ downloaders = 0

\* an InvalidURLError while the dictionary is built: sys.exit
main_exit ==
    /\ mpc = "build"
    /\ \E i \in 1..Len(urls) : BadUrl(urls[i])
    /\ mpc' = "exit"
    /\ UNCHANGED <<urls, linkarg, threads, tnum, log, downloaders>>
    /\ UNCHANGED <<dvars, tvars>>

\* the dictionary is built and the loop over it starts
main_build ==
    /\ mpc = "build"
    /\ \A i \in 1..Len(urls) : ~BadUrl(urls[i])
    /\ threads' \in IterOrders(BuildThreads(urls))
    /\ tnum' = IF threads' = <<>> THEN 0 ELSE 1
    /\ mpc' = IF threads' = <<>> THEN "done" ELSE "update_info"
    /\ UNCHANGED <<urls, linkarg, log, downloaders>>
    /\ UNCHANGED <<dvars, tvars>>

\* thread.update_info()
main_update_info ==
    /\ mpc = "update_info"
    /\ \/ update_info_fail
       \/ update_info_404
       \/ update_info_ok
       \/ update_info_error
    /\ log' = Append(log, Call("update_info", TRUE))
    /\ mpc' = IF opRaised' THEN "raised"
              ELSE IF linkarg THEN "scrape_links"
              ELSE "download_files"
    /\ UNCHANGED <<urls, linkarg, threads, tnum, downloaders>>

\* thread.scrape_links()
main_scrape_links ==
    /\ mpc = "scrape_links"
    /\ scrape_links
    /\ log' = Append(log, Call("scrape_links", linkIO'))
    /\ mpc' = IF opRaised' THEN "raised" ELSE "download_files"
    /\ UNCHANGED <<urls, linkarg, threads, tnum, downloaders>>

\* thread.download_files()
main_download_files ==
    /\ mpc = "download_files"
    /\ download_files
    /\ log' = Append(log, Call("download_files", downMade'))
    /\ downloaders' = IF downMade'
                      THEN downloaders + DownloadersMade(Len(tasks'))
                      ELSE downloaders
    /\ mpc' = IF opRaised' THEN "raised" ELSE "next"
    /\ UNCHANGED <<urls, linkarg, threads, tnum>>

\* the loop takes the next thread of the dictionary, or ends
main_next ==
    /\ mpc = "next"
    /\ IF tnum < Len(threads)
       THEN /\ tnum' = tnum + 1
            /\ mpc' = "update_info"
            /\ thread_is_dead' = "None"
            /\ threadinfo' = NoInfo
       ELSE /\ mpc' = "done"
            /\ UNCHANGED <<tnum, thread_is_dead, threadinfo>>
    /\ UNCHANGED <<linkfile, op, opStatus, opRaised, tasks, downMade, linkIO>>
    /\ UNCHANGED <<urls, linkarg, threads, log, downloaders>>
    /\ UNCHANGED dvars

MNext ==
    \/ main_exit
    \/ main_build
    \/ main_update_info
    \/ main_scrape_links
    \/ main_download_files
    \/ main_next

\* one run of the program
MainSpec == MainInit /\ [][MNext]_vars

\* ------------------------------------------------------------- liveness

\* a GET sent after the MaxGets that are counted: the loop itself has no
\* bound on the requests it sends
SendGetUncounted ==
    /\ pc = "loop"
    /\ MoreToDownload(Len(file), filesize)
    /\ ngets = MaxGets
    /\ lastOff' = RangeStart(file)
    /\ pc' = "get"
    /\ status' = "none"
    /\ body' = <<>>
    /\ UNCHANGED <<tvars, mvars>>
    /\ UNCHANGED sockets
    /\ UNCHANGED <<conn, usehttps, remote, file, outfile, filesize, result,
                   lastExc, excAt, file0, prev, served, nreq, ngets, firstOff>>

\* the steps of a download call once its HEAD request is sent
CallStep ==
    \/ HeadFail
    \/ HeadNoLength
    \/ HeadResponse
    \/ HeadError
    \/ SendGet
    \/ SendGetUncounted
    \/ Finish
    \/ GetFail
    \/ GetPartial
    \/ GetFull
    \/ GetRangeError
    \/ GetError
    \/ ReadChunk
    \/ ReadFail

\* one download call of a new Downloader
LiveNext ==
    \/ DownloadCall /\ result = "none"
    \/ CallStep

\* The call keeps running, and every request and read it waits for ends
\* with a response, with data or with an exception (the connection has a
\* timeout); which of them is left to the server.
LiveSpec == Init /\ [][LiveNext]_vars /\ WF_vars(CallStep)

\* ------------------------------------------------------------ properties

\* download has returned normally
Returned == pc = "idle" /\ result = "ok"

\* C1, as stated: when the local file already has the size the server
\* reports, download returns without having sent any request at all.
C1_NoNetworkCall ==
    (Returned /\ Len(file0) = filesize) => nreq = 0

\* C1, amended: when the local file already has the size the server reports,
\* download returns having sent the HEAD request that asks for that size and
\* nothing else: no GET is sent and the local file is left as it was.
C1_OnlyHeadProbe ==
    (Returned /\ Len(file0) = filesize) =>
        (nreq = 1 /\ ngets = 0 /\ file = file0)

C1_Witness ==
    Returned /\ Len(file0) = filesize /\ filesize > 0 /\ nreq = 1

\* C2: a second download of the same file, with the server serving the same
\* content both times, leaves the local file as the first download left it,
\* whatever the local file was to begin with.
C2_Idempotent ==
    (Returned /\ served /\ prev.ok) => file = prev.file

C2_Witness ==
    /\ Returned /\ served
    /\ prev.ok /\ prev.got
    /\ nreq = 1
    /\ file = prev.file

\* C3, as stated: with a local file of length k below the reported size,
\* whatever its bytes are, the first GET starts at k and on return the local
\* file is the remote content.
C3_ResumeAnyFile ==
    (Returned /\ served /\ Len(file0) < filesize) =>
        (firstOff = Len(file0) /\ file = remote)

\* C3, amended: with a local file of length k below the reported size, the
\* first GET starts at k and the received bytes are appended to the k bytes
\* already there; on return the local file is the remote content provided
\* those k bytes are the first k bytes of the remote content.
C3_ResumePrefix ==
    /\ (filesize >= 0 /\ Len(file0) < filesize) => IsPrefix(file0, file)
    /\ (filesize >= 0 /\ Len(file0) < filesize /\ ngets >= 1) =>
           firstOff = Len(file0)
    /\ (Returned /\ Len(file0) < filesize) => ngets >= 1
    /\ (Returned /\ served /\ Len(file0) < filesize /\ IsPrefix(file0, remote)) =>
           file = remote

C3_Witness ==
    /\ Returned /\ served
    /\ 0 < Len(file0) /\ Len(file0) < filesize
    /\ IsPrefix(file0, remote)
    /\ firstOff = Len(file0)
    /\ file = remote

\* C4: with a local file longer than the reported size, the file is empty
\* before the first GET is sent, the first GET starts at 0, and on return
\* the local file is the remote content.
C4_TruncationSafety ==
    /\ (filesize >= 0 /\ Len(file0) > filesize /\ ngets = 0) => file = <<>>
    /\ (filesize >= 0 /\ Len(file0) > filesize /\ ngets >= 1) => firstOff = 0
    /\ (Returned /\ served /\ Len(file0) > filesize) => file = remote

C4_Witness ==
    /\ Returned /\ served
    /\ Len(file0) > filesize /\ filesize > 0
    /\ firstOff = 0
    /\ file = remote

\* C5: a read timeout while the body is streamed never leaves download as an
\* exception, on TLS and on plain HTTP alike, and every GET starts at the
\* number of bytes the local file holds.
C5_TimeoutRecovered ==
    /\ ~(pc = "idle" /\ result = "raised" /\ lastExc \in Timeouts
         /\ excAt = "stream")
    /\ (pc = "get" => lastOff = Len(file))

\* C6: once a GET is answered 416, nothing is appended to the local file and
\* no further request is sent for it.
C6_RangeNotSatisfiable ==
    [][(status = "416" /\ pc # "idle") => (file' = file /\ nreq' = nreq)]_vars

\* C7: whenever download is not running, the file object it opened is closed.
C7_HandleClosed ==
    pc = "idle" => outfile # "open"

\* C8: a GET answered with an error status other than 404/416 makes download
\* raise, and the body of that response is never appended to the local file.
C8_ErrorStatusPropagated ==
    [][/\ (pc = "get" /\ status' = "err") =>
              (pc' = "idle" /\ result' = "raised")
       /\ (pc = "stream" /\ status = "err") => file' = file]_vars

\* C9: a download_files call on a thread whose refresh saw a 404 makes no
\* Downloader and no download call, and a scrape_links call on it does not
\* touch the link file.
C9_DeadThreadSkipped ==
    /\ (thread_is_dead = "True" /\ op = "download_files") =>
           (tasks = <<>> /\ ~downMade /\ ~opRaised)
    /\ (thread_is_dead = "True" /\ op = "scrape_links") =>
           (~linkIO /\ ~opRaised)

C9_Witness ==
    /\ thread_is_dead = "True"
    /\ op = "download_files"
    /\ HasPosts(threadinfo)
    /\ DerivedTasks(threadinfo.posts) # <<>>

\* C10: thread_is_dead is None until an operation has run, only update_info
\* changes it, and once it is True every operation leaves it True.
C10_DeadMonotonic ==
    [][/\ (op = "none" => thread_is_dead = "None")
       /\ (thread_is_dead' # thread_is_dead => op' = "update_info")
       /\ (thread_is_dead = "True" => thread_is_dead' = "True")]_vars

C10_Witness ==
    thread_is_dead = "True" /\ op = "update_info" /\ opStatus = "200"

\* C11: a refresh answered with an error status other than 404 leaves
\* update_info as an exception, does not mark the thread dead and leaves
\* threadinfo as it was.
C11_RefreshErrorPropagated ==
    [][(op' = "update_info" /\ opStatus' = "err") =>
           (/\ opRaised'
            /\ thread_is_dead' = thread_is_dead
            /\ threadinfo' = threadinfo)]_vars

\* C15: a download call made while the Downloader holds no open connection
\* connects and sends its HEAD request: no call ends as an exception without
\* having sent a request.
C15_LazyConnect ==
    (pc = "idle" /\ result = "raised") => nreq >= 1

\* C16: a Downloader never has more than one open socket, and it has none
\* whenever it holds no connected connection, in particular after
\* set_server.
C16_OneConnection ==
    /\ sockets <= 1
    /\ (conn # "connected" => sockets = 0)

C16_Witness ==
    conn = "unconnected" /\ outfile # "none" /\ sockets = 0

\* a list of strings in strictly ascending order
StrictlyAscending(q) ==
    \A i \in 1..(Len(q) - 1) : LexLess(q[i], q[i + 1])

\* scrape_links returned normally after rewriting the link file
Scraped ==
    op = "scrape_links" /\ linkIO /\ ~opRaised

\* C20: a link scrape that completes leaves a link file whose lines are in
\* strictly ascending order (sorted, no line twice) and are exactly the lines
\* the file held before together with the URLs of the post comments, a URL
\* split by word break tags counting as the joined URL; and a second scrape
\* of the same thread leaves the file as the first one left it.
C20_ScrapeLinks ==
    [][(op' = "scrape_links" /\ linkIO' /\ ~opRaised') =>
           LET old == IF linkfile.exists THEN ReadLinks(linkfile.text) ELSE <<>>
               new == ReadLinks(linkfile'.text)
               found == UNION {Range(FindAll(StripWbr(threadinfo.posts[i].com))) :
                                 i \in 1..Len(threadinfo.posts)}
           IN  /\ linkfile'.exists
               /\ linkfile'.text = WriteLinks(new)
               /\ StrictlyAscending(new)
               /\ Range(new) = Range(old) \cup found
               /\ (\E i \in 1..Len(threadinfo.posts) :
                       threadinfo.posts[i].com
                           = <<"h", "b", " ", "h", "a", "<wbr>", "b">>)
                      => {<<"h", "b">>, <<"h", "a", "b">>} \subseteq Range(new)
               /\ (Scraped /\ threadinfo' = threadinfo) => linkfile' = linkfile]_vars

\* a second scrape of a thread whose comments hold the same URL twice, once
\* split by a word break tag, over a link file that already held another URL
C20_Witness ==
    /\ Scraped
    /\ Len(threadinfo.posts) = 2
    /\ threadinfo.posts[1].com = <<"h", "b", " ", "h", "a", "<wbr>", "b">>
    /\ threadinfo.posts[2].com = <<"h", "a", "b">>
    /\ ReadLinks(linkfile.text) = <<<<"h", "a">>, <<"h", "a", "b">>, <<"h", "b">>>>

\* the positions of the posts that have a file: an extension, not deleted
FilePosts(posts) ==
    {i \in 1..Len(posts) : posts[i].ext # None /\ posts[i].filedeleted # 1}

\* the position of the k-th post that has a file
KthFilePost(posts, k) ==
    CHOOSE i \in FilePosts(posts) :
        Cardinality({j \in FilePosts(posts) : j <= i}) = k

\* the name the claims give a post's file: timestamp id followed by extension
TimExt(post) == Str(post.tim) \o Value(post.ext)

\* C18: for an alive thread, download_files makes one download call per post
\* that has an extension and is not marked deleted, none for another post,
\* in post order, the k-th call with remote path "/" board "/" tim ext and
\* local path archive directory "/" tim ext of the k-th such post; a call
\* that raises ends the loop, the calls made till then being the first ones.
C18_OneDownloadPerFilePost ==
    (op = "download_files" /\ downMade /\ HasPosts(threadinfo)) =>
        LET posts == threadinfo.posts
        IN  /\ Len(tasks) <= Cardinality(FilePosts(posts))
            /\ ~opRaised => Len(tasks) = Cardinality(FilePosts(posts))
            /\ \A k \in 1..Len(tasks) :
                 LET post == posts[KthFilePost(posts, k)]
                 IN  /\ tasks[k].url = <<"/">> \o board \o <<"/">> \o TimExt(post)
                     /\ tasks[k].filepath = downdir \o <<"/">> \o TimExt(post)

\* a completed call over a deleted file followed by a file: one download
C18_Witness ==
    /\ op = "download_files" /\ downMade /\ ~opRaised
    /\ HasPosts(threadinfo)
    /\ Len(threadinfo.posts) = 2
    /\ threadinfo.posts[1].filedeleted = 1
    /\ threadinfo.posts[2].tim = Some(12)
    /\ tasks = <<[url |-> <<"/", "g", "/", "1", "2", ".", "j", "p", "g">>,
                 filepath |-> <<"d", "l", "/", "1", "2", ".", "j", "p", "g">>]>>

\* C19: after a download_files call that completes, no two of its download
\* calls have the same local path, whatever posts the thread holds.
C19_UniqueLocalPath ==
    (op = "download_files" /\ downMade /\ ~opRaised) =>
        \A k, l \in 1..Len(tasks) :
            k # l => tasks[k].filepath # tasks[l].filepath

\* the calls of operation name made on thread id so far
CallsOn(id, name) ==
    {i \in 1..Len(log) : log[i].threadid = id /\ log[i].op = name}

\* the first URL of the run that names thread id
FirstUrl(id) ==
    urls[CHOOSE i \in 1..Len(urls) :
             /\ urls[i].threadid = id
             /\ \A j \in 1..(i - 1) : urls[j].threadid # id]

\* C12: whatever URLs a run is given, a thread identity is refreshed at most
\* once and downloaded at most once, every call is made on the thread object
\* of the first URL that names the identity, and a run that completes has
\* refreshed and downloaded every identity named exactly once.
C12_ThreadDeduplication ==
    \A id \in {urls[i].threadid : i \in 1..Len(urls)} :
        /\ Cardinality(CallsOn(id, "update_info")) <= 1
        /\ Cardinality(CallsOn(id, "download_files")) <= 1
        /\ \A i \in 1..Len(log) :
             log[i].threadid = id => log[i].usehttps = FirstUrl(id).usehttps
        /\ mpc = "done" =>
             /\ Cardinality(CallsOn(id, "update_info")) = 1
             /\ Cardinality(CallsOn(id, "download_files")) = 1

\* a completed run that was given thread 1 by https, thread 2, and thread 1
\* again by http
C12_Witness ==
    /\ mpc = "done"
    /\ urls = <<ThreadUrl(TRUE, 1), ThreadUrl(FALSE, 2), ThreadUrl(FALSE, 1)>>
    /\ Cardinality(CallsOn(1, "update_info")) = 1
    /\ Cardinality(CallsOn(2, "update_info")) = 1

\* C13: in a run that was given an invalid thread URL at any place, no
\* thread is refreshed, no link file is written and no file is downloaded.
C13_FailFast ==
    (\E i \in 1..Len(urls) : ~urls[i].valid) =>
        /\ log = <<>>
        /\ op = "none"
        /\ ~linkfile.exists
        /\ ~downMade
        /\ downloaders = 0
        /\ mpc \in {"build", "exit"}

\* a run that has exited on an invalid URL that came after two valid ones
C13_Witness ==
    /\ mpc = "exit"
    /\ Len(urls) = 3
    /\ urls[1].valid /\ urls[2].valid /\ ~urls[3].valid
    /\ urls[1].threadid # urls[2].threadid

\* C14 as stated: one run constructs at most one Downloader.
C14_OneDownloaderPerRun ==
    downloaders <= 1

\* C14: a run constructs one Downloader for each download_files call on a
\* thread that is not dead, however many files the thread has: none per
\* file, and none for a dead thread.
C14_OneDownloaderPerThread ==
    downloaders =
        Cardinality({i \in 1..Len(log) :
                       log[i].op = "download_files" /\ log[i].acted})

\* a download_files call that made two downloads with its one Downloader
C14_Witness ==
    /\ mpc = "next"
    /\ op = "download_files" /\ ~opRaised
    /\ Len(tasks) = 2
    /\ downloaders = 1

\* the threads of the dictionary in the order of their first URL
SuppliedOrder ==
    [i \in 1..Len(BuildThreads(urls)) |-> BuildThreads(urls)[i].threadid]

\* the threads in the order they were refreshed in
RefreshOrder ==
    LET upd == SelectSeq(log, LAMBDA c : c.op = "update_info")
    IN  [i \in 1..Len(upd) |-> upd[i].threadid]

\* C17: the threads of a run are refreshed one at a time in the order they
\* were supplied in, a thread found dead or not.
C17_SuppliedOrder ==
    (\A i \in 1..Len(urls) : urls[i].valid) =>
        /\ IsPrefix(RefreshOrder, SuppliedOrder)
        /\ mpc = "done" => RefreshOrder = SuppliedOrder

\* C21: every GET of a download call asks for the bytes from the length the
\* local file has when it is sent, a length below the size the HEAD response
\* reported; a call that returns normally leaves a local file at least as
\* long as that size, and as long as that size when every response was a
\* success carrying what was asked for.
C21_RangeOffsets ==
    /\ pc = "get" =>
         /\ lastOff = Len(file)
         /\ 0 <= lastOff /\ lastOff < filesize
    /\ Returned => Len(file) >= filesize
    /\ (Returned /\ served) => Len(file) = filesize

\* a call that returned after two GETs, the second resuming where a read
\* timeout had stopped the first
C21_Witness ==
    /\ Returned /\ served
    /\ ngets = 2
    /\ firstOff = 0 /\ lastOff = 1
    /\ filesize = 2 /\ Len(file) = 2

\* a read timeout the handler of download caught: the loop goes on
CaughtTimeout ==
    /\ pc \in {"get", "stream"}
    /\ pc' = "loop"
    /\ lastExc' \in Timeouts
    /\ UNCHANGED <<file, body>>
    /\ GetFail \/ ReadFail

\* a GET response whose body is empty
EmptyResponse ==
    /\ pc = "get"
    /\ pc' = "stream"
    /\ body' = <<>>

\* download is at work
InCall == pc # "idle"

\* C22: a download call in which read timeouts and GET responses with an
\* empty body stop occurring ends: it returns or raises.
C22_Terminates ==
    (<>[][~CaughtTimeout]_vars /\ <>[][~EmptyResponse]_vars)
        => (InCall ~> ~InCall)

\* a call that returned after a read timeout was caught and the GET was
\* sent again
C22_Witness ==
    /\ Returned
    /\ lastExc \in Timeouts
    /\ ngets = MaxGets
    /\ Len(file) = filesize

====
